---- MODULE Spec2Model ----
(***************************************************************************)
(* Model of app.py, the RSS summarising backend: the three POST endpoints  *)
(* /summarize, /summarize_batch and /summarize_article, the helpers        *)
(* first_sentence, call_generate, ai_summary and ai_digest, and the        *)
(* external services (feedparser, the page fetch, the generative model)    *)
(* as nondeterministic inputs.  Text is a sequence of one-character        *)
(* strings so that strip, split, slicing and prefix tests are computed.    *)
(***************************************************************************)
EXTENDS Integers, Sequences, FiniteSets, TLC

\* ---------------------------------------------------------------- bounds
MaxFeeds == 3      \* longest feedUrls list of a request
MaxTotal == 3      \* most entries all the feeds of one request return
MaxBatch == 3      \* longest articles list of a /summarize_batch request
MaxSegs == 3       \* a model output is at most this many segments long

\* ------------------------------------------------------- program constants
\* MAX_ARTICLES is read from the environment (default 40); 2 is the value
\* of the deployment modelled, so that the cap is reached by small inputs.
MAX_ARTICLES == 2
MIN_FRAGMENT == 10
LINE_LIMIT == 200
DIGEST_LIMIT == 50

TAG == <<"[", "m", "o", "d", "e", "l", " ", "e", "r", "r", "o", "r", ":">>
PLACEHOLDER == <<"N", "o", " ", "r", "e", "l", "e", "v", "a", "n", "t", " ", "r", "e", "c", "r", "u", "i", "t", "i", "n", "g", " ", "s", "i", "g", "n", "a", "l", "s", " ", "f", "o", "u", "n", "d", ".">>
NO_SIGNALS == <<"N", "o", " ", "r", "e", "c", "r", "u", "i", "t", "i", "n", "g", " ", "s", "i", "g", "n", "a", "l", "s", " ", "a", "c", "r", "o", "s", "s", " ", "t", "h", "e", "s", "e", " ", "a", "r", "t", "i", "c", "l", "e", "s", ".">>
NO_ARTICLES == <<"N", "o", " ", "a", "r", "t", "i", "c", "l", "e", "s", " ", "f", "o", "u", "n", "d", " ", "f", "r", "o", "m", " ", "p", "r", "o", "v", "i", "d", "e", "d", " ", "f", "e", "e", "d", "s", ".">>

\* ------------------------------------------------------------ text helpers
\* the characters str.strip() removes
Whitespace == {" ", "\n", "\t", "\r"}

\* the separators of re.split(r"[.?!\n]", text)
Terminators == {".", "?", "!", "\n"}

\* s[:n]
Take(s, n) == IF Len(s) <= n THEN s ELSE SubSeq(s, 1, n)

\* s.rstrip()
RStrip(s) ==
    IF \A i \in 1..Len(s) : s[i] \in Whitespace THEN <<>>
    ELSE SubSeq(s, 1, CHOOSE i \in 1..Len(s) :
                        s[i] \notin Whitespace /\ \A j \in (i + 1)..Len(s) : s[j] \in Whitespace)

\* s.lstrip()
LStrip(s) ==
    IF \A i \in 1..Len(s) : s[i] \in Whitespace THEN <<>>
    ELSE SubSeq(s, CHOOSE i \in 1..Len(s) :
                        s[i] \notin Whitespace /\ \A j \in 1..(i - 1) : s[j] \in Whitespace,
                   Len(s))

\* s.strip()
Strip(s) == RStrip(LStrip(s))

\* s.replace("\n", " ")
ReplaceNewlines(s) == [i \in 1..Len(s) |-> IF s[i] = "\n" THEN " " ELSE s[i]]

\* the part of s before the first character of seps: split(...)[0]
FirstPart(s, seps) ==
    LET hits == {i \in 1..Len(s) : s[i] \in seps}
    IN  IF hits = {} THEN s
        ELSE SubSeq(s, 1, (CHOOSE i \in hits : \A j \in hits : i <= j) - 1)

UPPER == <<"A", "B", "C", "D", "E", "F", "G", "H", "I", "J", "K", "L", "M", "N", "O", "P", "Q", "R", "S", "T", "U", "V", "W", "X", "Y", "Z">>
LOWER == <<"a", "b", "c", "d", "e", "f", "g", "h", "i", "j", "k", "l", "m", "n", "o", "p", "q", "r", "s", "t", "u", "v", "w", "x", "y", "z">>

UpperSet == {UPPER[k] : k \in 1..Len(UPPER)}
ToLower == [c \in UpperSet |-> LOWER[CHOOSE k \in 1..Len(UPPER) : UPPER[k] = c]]

\* s.lower()
Lower(s) == [i \in 1..Len(s) |-> IF s[i] \in UpperSet THEN ToLower[s[i]] ELSE s[i]]

\* s.startswith(p)
StartsWith(s, p) == Len(s) >= Len(p) /\ SubSeq(s, 1, Len(p)) = p

\* first_sentence(text)
first_sentence(text) ==
    IF text = <<>> THEN <<>>
    ELSE LET parts0 == Strip(FirstPart(text, Terminators))
             first == IF Len(parts0) < MIN_FRAGMENT /\ Len(text) > 0
                      THEN Strip(Take(FirstPart(Strip(text), {"\n"}), LINE_LIMIT))
                      ELSE parts0
         IN  IF first = <<>> THEN <<>> ELSE RStrip(first) \o <<".">>

\* A model call's outcome: the service raises with a message, or answers
\* with a text (an absent or None text is the empty text).
Raised(msg) == [kind |-> "raise", text |-> msg]
Answered(txt) == [kind |-> "text", text |-> txt]

\* call_generate(...): the text, or the error string on an exception
call_generate(outcome) ==
    IF outcome.kind = "raise"
    THEN TAG \o <<" ">> \o outcome.text \o <<"]">>
    ELSE outcome.text

\* the empty-output test left out
NoTextNever(text) == FALSE

\* the `if not text` test of ai_summary
NoText(text) == text = <<>>

\* ai_summary(title, content), given the outcome of its model call
ai_summary(outcome) ==
    LET text == Strip(ReplaceNewlines(Strip(call_generate(outcome))))
    IN  IF NoText(text) THEN PLACEHOLDER ELSE first_sentence(text)

\* the filter without its error-tag test
KeepNonEmpty(s) == s # <<>>

\* the filter of ai_digest: drop the empty and the error-tagged summaries
KeepInDigest(s) == s # <<>> /\ ~StartsWith(Lower(s), TAG)

\* cleaned, as placed in the digest prompt
DigestCleaned(summaries) ==
    LET kept == SelectSeq(summaries, KeepInDigest)
    IN  Take([i \in 1..Len(kept) |-> Strip(kept[i])], DIGEST_LIMIT)

\* ai_digest(summaries), given the outcome of its model call (if made)
ai_digest(summaries, outcome) ==
    IF DigestCleaned(summaries) = <<>> THEN NO_SIGNALS
    ELSE Strip(call_generate(outcome))


\* --------------------------------------------------------------- inputs
T(c) == <<c>>

\* what the model service can do on the call for one article of a list
ListOutcomes ==
    { Raised(<<"x", ".">>), Answered(<<>>), Answered(<<"H", "i", ".">>) }

\* what the model service can do on the digest call
DigestOutcomes == { Raised(<<"x">>), Answered(<<"-", " ", "d", "\n">>) }

\* the pieces a model output of /summarize_article is made of
Segments ==
    { <<"H", "i">>, <<"A", "c", "m", "e", " ", "h", "i", "r", "e", "s">>,
      <<".">>, <<"?">>, <<"\n">>, <<" ">>,
      [i \in 1..LINE_LIMIT |-> "a"] }

RECURSIVE TextsUpTo(_)
TextsUpTo(n) ==
    IF n = 0 THEN {<<>>}
    ELSE LET shorter == TextsUpTo(n - 1)
         IN  shorter \cup {t \o s : t \in shorter, s \in Segments}

\* what the model service can do on the call of /summarize_article
ArticleOutcomes ==
    {Answered(t) : t \in TextsUpTo(MaxSegs)} \cup {Raised(t) : t \in TextsUpTo(1)}

\* fetch_article_text(url): "" on any failure, else the page's text
FetchResults == {<<>>, T("p")}

\* the entries a parsed feed can hold (feedparser's entry dictionaries)
Entry(title, link, id, content, summary) ==
    [title |-> title, link |-> link, id |-> id, content |-> content, summary |-> summary]

EntryPool ==
    { Entry(T("t"), T("u"), <<>>, <<T("c")>>, <<>>),
      Entry(T("s"), <<>>, T("u"), <<>>, <<>>),
      Entry(<<" ", "w">>, <<>>, <<>>, <<>>, T("s")),
      Entry(<<>>, T("x"), T("u"), <<>>, <<>>),
      Entry(T(" "), <<>>, <<>>, <<<<>>>>, <<>>) }

RECURSIVE SeqsUpTo(_, _)
SeqsUpTo(S, n) ==
    IF n = 0 THEN {<<>>}
    ELSE LET shorter == SeqsUpTo(S, n - 1)
         IN  shorter \cup {Append(q, x) : q \in shorter, x \in S}

\* feedparser.parse(feed_url): raises, or returns a feed with a number of
\* entries; each entry is drawn from EntryPool when the loop reaches it
ParseOutcomes(budget) ==
    {[kind |-> "raise", entries |-> 0]}
        \cup {[kind |-> "ok", entries |-> n] : n \in 0..budget}

\* the items of the articles list of a /summarize_batch request
Art(title, headline, content, summary, url) ==
    [dict |-> TRUE, title |-> title, headline |-> headline, content |-> content,
     summary |-> summary, url |-> url]

ArtPool ==
    { Art(T("t"), <<>>, T("c"), <<>>, T("u")),
      Art(<<>>, T("h"), <<>>, <<>>, T("u")),
      Art(<<>>, <<>>, <<>>, T("s"), <<>>),
      Art(<<>>, <<>>, <<>>, <<>>, <<>>),
      [dict |-> FALSE] }

\* request.get_json(force=True, silent=True): the body is no JSON (None), a
\* falsy JSON value, a JSON object, or another truthy JSON value (an array,
\* a string, a number); the field is the endpoint's list field.
Request(body, field, items) == [body |-> body, field |-> field, items |-> items]

NonObjectRequests ==
    { Request("nojson", "missing", <<>>), Request("falsy", "missing", <<>>),
      Request("nondict", "missing", <<>>) }

BadFieldRequests ==
    { Request("object", f, <<>>) : f \in {"missing", "falsy", "nonlist"} }

SummarizeRequests ==
    NonObjectRequests \cup BadFieldRequests
        \cup { Request("object", "list", [i \in 1..n |-> i]) : n \in 1..MaxFeeds }

BatchRequests ==
    NonObjectRequests \cup BadFieldRequests
        \cup { Request("object", "list", as) : as \in SeqsUpTo(ArtPool, MaxBatch) \ {<<>>} }

ArticleRequests ==
    { Request("nondict", "missing", <<>>) }
        \cup { Request("object", "fields", [content |-> c, url |-> u]) :
                 c \in {<<>>, T("c")}, u \in {<<>>, T("u")} }

\* ---------------------------------------------------------------- state
VARIABLES
    pc,           \* where the handler of the current request stands
    endpoint,     \* "summarize", "batch" or "article"; "none" before a request
    request,      \* the request body
    status,       \* HTTP status of the response, 0 before it is sent
    errorKey,     \* the response body has an "error" key
    feedIdx,      \* position in feed_urls of the feed being processed
    entries,      \* number of entries of the parsed feed still to iterate
    entryIdx,     \* position in parsed.entries of the next entry
    returned,     \* number of entries the feeds have returned so far
    failed,       \* positions of the feeds whose parse raised or had no entries
    okEntries,    \* the entries iterated, of the feeds that did parse
    firstAt,      \* <<url, position>> of the first entry iterated with each url
    articles,     \* the articles list of summarize_feeds
    origin,       \* per article, <<feed position, entry position>> it came from
    seen,         \* the seen set of summarize_feeds
    batchIn,      \* items of articles[:MAX_ARTICLES] still to iterate
    results,      \* the summary objects of the response
    summaries,    \* summaries / all_summaries
    modelLog,     \* outcome of the model call behind each result
    digest,       \* the digest of the response
    digestIn,     \* the list handed to ai_digest
    digestPrompt, \* the summaries ai_digest placed in its prompt
    calls         \* outbound calls made: feed parses, page fetches, model calls

vars == <<pc, endpoint, request, status, errorKey, feedIdx, entries, entryIdx,
          returned, failed, okEntries, firstAt, articles, origin, seen, batchIn, results,
          summaries, modelLog, digest, digestIn, digestPrompt, calls>>

collectVars == <<feedIdx, entries, entryIdx, returned, failed, okEntries, firstAt,
                 articles, origin, seen>>
outputVars == <<results, summaries, modelLog, digest, digestIn, digestPrompt>>

NoRequest == Request("none", "missing", <<>>)

Init ==
    /\ pc = "idle"
    /\ endpoint = "none"
    /\ request = NoRequest
    /\ status = 0
    /\ errorKey = FALSE
    /\ feedIdx = 1
    /\ entries = 0
    /\ entryIdx = 1
    /\ returned = 0
    /\ failed = {}
    /\ okEntries = {}
    /\ firstAt = {}
    /\ articles = <<>>
    /\ origin = <<>>
    /\ seen = {}
    /\ batchIn = <<>>
    /\ results = <<>>
    /\ summaries = <<>>
    /\ modelLog = <<>>
    /\ digest = <<>>
    /\ digestIn = <<>>
    /\ digestPrompt = <<>>
    /\ calls = [parse |-> 0, fetch |-> 0, model |-> 0, digest |-> 0]

\* ------------------------------------------------------ request validation
\* payload = request.get_json(force=True, silent=True) or {}: payload.get
\* raises AttributeError when the body is a truthy JSON value with no .get
PayloadHasGet(req) == req.body # "nondict"

\* payload.get(field) or []
FieldValue(req) == IF req.field = "list" THEN req.items ELSE <<>>

\* `not isinstance(x, list) or not x`
NotAList(req) == req.field = "nonlist" \/ FieldValue(req) = <<>>

\* handle_exception: the response of an unhandled exception
Respond500 ==
    /\ status' = 500
    /\ errorKey' = TRUE
    /\ pc' = "done"

\* the 400 response of the list endpoints
Respond400 ==
    /\ status' = 400
    /\ errorKey' = TRUE
    /\ pc' = "done"

\* ------------------------------------------------------------- /summarize
\* title = entry.get("title", "") or entry.get("headline", "")
EntryTitle(e) == e.title

\* url = entry.get("link", "") or entry.get("id", "")
EntryUrl(e) == IF e.link # <<>> THEN e.link ELSE e.id

\* key = (url or title).strip(), with the title taken before the url
KeyTitleFirst(e) == Strip(IF EntryTitle(e) # <<>> THEN EntryTitle(e) ELSE EntryUrl(e))

\* key = (url or title).strip()
EntryKey(e) == Strip(IF EntryUrl(e) # <<>> THEN EntryUrl(e) ELSE EntryTitle(e))

\* the entry has no content and no summary, and a url: the page is fetched
NeedsFetch(e) == e.content = <<>> /\ e.summary = <<>> /\ EntryUrl(e) # <<>>

\* content preference: content > summary > fetch from url
EntryContent(e, page) ==
    IF e.content # <<>> THEN e.content[1]
    ELSE IF e.summary # <<>> THEN e.summary
    ELSE IF EntryUrl(e) # <<>> THEN page
    ELSE <<>>

\* the cap test, off by one
CapReachedLate(arts) == Len(arts) > MAX_ARTICLES

\* len(articles) >= MAX_ARTICLES
CapReached(arts) == Len(arts) >= MAX_ARTICLES

\* an insert at the front in place of the append
PrependArticle(list, x) == <<x>> \o list

\* articles.append(...)
AppendArticle(list, x) == Append(list, x)

\* a `break` in place of the `continue`
AfterFailedFeedBreak(i, n) == n + 1

\* `continue`: on to the next feed of feed_urls
AfterFailedFeed(i, n) == i + 1

\* not parsed or not getattr(parsed, "entries", None)
FeedFailed(parsed) == parsed.kind = "raise" \/ parsed.entries = 0

\* the record of the first entry iterated with each non-empty url
NoteFirst(first, url, pos) ==
    IF url = <<>> \/ \E f \in first : f[1] = url THEN first
    ELSE first \cup {<<url, pos>>}

\* summarize_feeds, lines 207-210: read and validate the request
SummarizeRecv ==
    /\ pc = "idle"
    /\ \E req \in SummarizeRequests :
        /\ request' = req
        /\ endpoint' = "summarize"
        /\ IF ~PayloadHasGet(req) THEN Respond500
           ELSE IF NotAList(req) THEN Respond400
           ELSE pc' = "feeds" /\ UNCHANGED <<status, errorKey>>
    /\ UNCHANGED <<collectVars, batchIn, outputVars, calls>>

\* one iteration of `for feed_url in feed_urls` up to its inner loop
ParseFeed ==
    /\ pc = "feeds"
    /\ feedIdx <= Len(request.items)
    /\ \E parsed \in ParseOutcomes(MaxTotal - returned) :
        /\ calls' = [calls EXCEPT !.parse = @ + 1]
        /\ IF FeedFailed(parsed)
           THEN /\ feedIdx' = AfterFailedFeed(feedIdx, Len(request.items))
                /\ failed' = failed \cup {feedIdx}
                /\ UNCHANGED <<pc, entries, entryIdx, returned>>
           ELSE /\ entries' = parsed.entries
                /\ UNCHANGED failed
                /\ entryIdx' = 1
                /\ returned' = returned + parsed.entries
                /\ pc' = "entries"
                /\ UNCHANGED feedIdx
    /\ UNCHANGED <<endpoint, request, status, errorKey, okEntries, firstAt, articles,
                   origin, seen, batchIn, outputVars>>

\* one iteration of `for entry in parsed.entries` that passes the cap test
TakeEntry ==
    /\ pc = "entries"
    /\ entries > 0
    /\ ~CapReached(articles)
    /\ \E e \in EntryPool :
       LET pos == <<feedIdx, entryIdx>>
       IN  /\ entries' = entries - 1
           /\ entryIdx' = entryIdx + 1
           /\ okEntries' = okEntries \cup {e}
           /\ firstAt' = NoteFirst(firstAt, EntryUrl(e), pos)
           /\ IF EntryKey(e) = <<>> \/ EntryKey(e) \in seen
              THEN UNCHANGED <<articles, origin, seen, calls>>
              ELSE \E page \in FetchResults :
                    /\ seen' = seen \cup {EntryKey(e)}
                    /\ articles' = AppendArticle(articles,
                            [title |-> EntryTitle(e),
                             content |-> EntryContent(e, page),
                             url |-> EntryUrl(e)])
                    /\ origin' = AppendArticle(origin, pos)
                    /\ calls' = IF NeedsFetch(e)
                                THEN [calls EXCEPT !.fetch = @ + 1]
                                ELSE calls
    /\ UNCHANGED <<pc, endpoint, request, status, errorKey, feedIdx, returned,
                   failed, batchIn, outputVars>>

\* the inner loop ends: its entries are exhausted, or the cap test breaks it
EndEntries ==
    /\ pc = "entries"
    /\ entries = 0 \/ CapReached(articles)
    /\ entries' = 0
    /\ feedIdx' = feedIdx + 1
    /\ pc' = "feeds"
    /\ UNCHANGED <<endpoint, request, status, errorKey, entryIdx, returned, failed,
                   okEntries, firstAt, articles, origin, seen, batchIn, outputVars,
                   calls>>

\* the outer loop ends, lines 242-246
EndFeeds ==
    /\ pc = "feeds"
    /\ feedIdx > Len(request.items)
    /\ IF articles = <<>>
       THEN /\ status' = 200
            /\ digest' = NO_ARTICLES
            /\ pc' = "done"
       ELSE /\ pc' = "summarize"
            /\ UNCHANGED <<status, digest>>
    /\ UNCHANGED <<endpoint, request, errorKey, collectVars, batchIn, results,
                   summaries, modelLog, digestIn, digestPrompt, calls>>

\* one iteration of `for art in articles`, lines 248-251
SummarizeArticle ==
    /\ pc = "summarize"
    /\ Len(results) < Len(articles)
    /\ \E outcome \in ListOutcomes :
        LET art == articles[Len(results) + 1]
            s == ai_summary(outcome)
        IN  /\ results' = Append(results,
                    [title |-> art.title, summary |-> s, url |-> art.url])
            /\ summaries' = Append(summaries, s)
            /\ modelLog' = Append(modelLog, outcome)
            /\ calls' = [calls EXCEPT !.model = @ + 1]
    /\ UNCHANGED <<pc, endpoint, request, status, errorKey, collectVars, batchIn,
                   digest, digestIn, digestPrompt>>

\* digest = ai_digest(summaries) and the 200 response, of both list endpoints
Digest ==
    /\ \/ pc = "summarize" /\ Len(results) = Len(articles)
       \/ pc = "batch" /\ batchIn = <<>>
    /\ \E outcome \in DigestOutcomes :
        /\ digest' = ai_digest(summaries, outcome)
        /\ digestIn' = summaries
        /\ digestPrompt' = DigestCleaned(summaries)
        /\ calls' = IF DigestCleaned(summaries) = <<>> THEN calls
                    ELSE [calls EXCEPT !.digest = @ + 1]
    /\ status' = 200
    /\ pc' = "done"
    /\ UNCHANGED <<endpoint, request, errorKey, collectVars, batchIn, results,
                   summaries, modelLog>>

\* ------------------------------------------------------- /summarize_batch
\* articles[:MAX_ARTICLES]
BatchSlice(items) == Take(items, MAX_ARTICLES)

\* title = art.get("title") or art.get("headline") or ""
ArtTitle(art) == IF art.title # <<>> THEN art.title ELSE art.headline

\* content = art.get("content") or art.get("summary") or "", then the page
\* when there is no content and there is a url
ArtNeedsFetch(art) == art.content = <<>> /\ art.summary = <<>> /\ art.url # <<>>

ArtContent(art, page) ==
    IF art.content # <<>> THEN art.content
    ELSE IF art.summary # <<>> THEN art.summary
    ELSE IF art.url # <<>> THEN page
    ELSE <<>>

\* summarize_batch, lines 174-180: read and validate the request
BatchRecv ==
    /\ pc = "idle"
    /\ \E req \in BatchRequests :
        /\ request' = req
        /\ endpoint' = "batch"
        /\ IF ~PayloadHasGet(req) THEN Respond500 /\ UNCHANGED batchIn
           ELSE IF NotAList(req) THEN Respond400 /\ UNCHANGED batchIn
           ELSE /\ pc' = "batch"
                /\ batchIn' = BatchSlice(req.items)
                /\ UNCHANGED <<status, errorKey>>
    /\ UNCHANGED <<collectVars, outputVars, calls>>

\* one iteration of `for art in articles[:MAX_ARTICLES]`, lines 181-189
BatchArticle ==
    /\ pc = "batch"
    /\ batchIn # <<>>
    /\ LET art == Head(batchIn)
       IN  IF ~art.dict
           THEN /\ Respond500
                /\ UNCHANGED <<batchIn, results, summaries, modelLog, calls>>
           ELSE \E page \in FetchResults, outcome \in ListOutcomes :
                LET s == ai_summary(outcome)
                IN  /\ batchIn' = Tail(batchIn)
                    /\ results' = Append(results,
                            [title |-> ArtTitle(art), summary |-> s, url |-> art.url])
                    /\ summaries' = Append(summaries, s)
                    /\ modelLog' = Append(modelLog, outcome)
                    /\ calls' = [calls EXCEPT
                            !.fetch = IF ArtNeedsFetch(art) THEN @ + 1 ELSE @,
                            !.model = @ + 1]
                    /\ UNCHANGED <<pc, status, errorKey>>
    /\ UNCHANGED <<endpoint, request, collectVars, digest, digestIn, digestPrompt>>

\* ----------------------------------------------------- /summarize_article
\* summarize_article, lines 160-169, the whole handler
ArticleRequest ==
    /\ pc = "idle"
    /\ \E req \in ArticleRequests, page \in FetchResults, outcome \in ArticleOutcomes :
        /\ request' = req
        /\ endpoint' = "article"
        /\ IF ~PayloadHasGet(req)
           THEN /\ Respond500
                /\ UNCHANGED <<results, modelLog, calls>>
           ELSE LET fetches == req.items.content = <<>> /\ req.items.url # <<>>
                    content == IF fetches THEN page ELSE req.items.content
                IN  /\ status' = 200
                    /\ pc' = "done"
                    /\ UNCHANGED errorKey
                    /\ IF content = <<>>
                       THEN /\ results' = <<[summary |-> PLACEHOLDER]>>
                            /\ UNCHANGED modelLog
                            /\ calls' = [calls EXCEPT
                                    !.fetch = IF fetches THEN @ + 1 ELSE @]
                       ELSE /\ results' = <<[summary |-> ai_summary(outcome)]>>
                            /\ modelLog' = <<outcome>>
                            /\ calls' = [calls EXCEPT
                                    !.fetch = IF fetches THEN @ + 1 ELSE @,
                                    !.model = @ + 1]
    /\ UNCHANGED <<collectVars, batchIn, summaries, digest, digestIn, digestPrompt>>

\* ------------------------------------------------------------ the system
Next ==
    \/ SummarizeRecv
    \/ ParseFeed
    \/ TakeEntry
    \/ EndEntries
    \/ EndFeeds
    \/ SummarizeArticle
    \/ Digest
    \/ BatchRecv
    \/ BatchArticle
    \/ ArticleRequest

Spec == Init /\ [][Next]_vars

\* ============================================================== claims
ListEndpoint == endpoint \in {"summarize", "batch"}

\* a /summarize request whose feedUrls is a non-empty list
ValidFeeds == endpoint = "summarize" /\ request.body = "object" /\ request.field = "list"

\* the deduplication key of a returned object, from its url and title
ResultKey(r) == Strip(IF r.url # <<>> THEN r.url ELSE r.title)

\* position p comes before position q: feed order, then entry order
Before(p, q) == p[1] < q[1] \/ (p[1] = q[1] /\ p[2] < q[2])

\* s is one fragment closed by a single period
OneSentence(s) ==
    /\ s # <<>>
    /\ s[Len(s)] = "."
    /\ \A i \in 1..(Len(s) - 1) : s[i] \notin Terminators

\* C1: in /summarize no non-empty link occurs twice among the collected
\* articles or the returned summaries, and a returned link comes from the
\* first entry, in feed order then entry order, that carries it.
C1_NoDuplicateLink ==
    endpoint = "summarize" =>
        /\ \A i, j \in 1..Len(articles) :
            (i # j /\ articles[i].url # <<>>) => articles[i].url # articles[j].url
        /\ \A i, j \in 1..Len(results) :
            (i # j /\ results[i].url # <<>>) => results[i].url # results[j].url
        /\ \A i \in 1..Len(articles) :
            articles[i].url # <<>> => <<articles[i].url, origin[i]>> \in firstAt

\* two feeds of one entry each, both entries with the link "u", one result
C1_Witness ==
    /\ pc = "done" /\ endpoint = "summarize" /\ status = 200
    /\ calls.parse = 2 /\ failed = {} /\ returned = 2 /\ entryIdx = 2
    /\ okEntries = {Entry(T("t"), T("u"), <<>>, <<T("c")>>, <<>>)}
    /\ Len(results) = 1 /\ results[1].url = T("u") /\ origin[1] = <<1, 1>>

\* C2: a /summarize request with a non-empty feedUrls list answers 200 with
\* every feed parsed; a failed feed contributes nothing, and every keyed
\* entry iterated in a feed that parsed is in the summaries unless the cap
\* was reached, one summary per collected article.
C2_FailedFeedSkipped ==
    (pc = "done" /\ ValidFeeds) =>
        /\ status = 200
        /\ calls.parse = Len(request.items)
        /\ Len(results) = Len(articles)
        /\ \A i \in 1..Len(origin) : origin[i][1] \notin failed
        /\ \A e \in okEntries :
            EntryKey(e) # <<>> =>
                \/ Len(results) >= MAX_ARTICLES
                \/ \E i \in 1..Len(results) : ResultKey(results[i]) = EntryKey(e)

\* the first feed fails, the second is parsed and its entry is summarized
C2_Witness ==
    /\ pc = "done" /\ ValidFeeds /\ status = 200
    /\ failed = {1} /\ calls.parse = 2
    /\ Len(results) = 1 /\ origin[1] = <<2, 1>>

\* C3: in the list endpoints a model call that raises leaves the request
\* running: its entry is returned with a summary that begins with the error
\* tag, every entry is still summarized and the answer is 200, and no
\* error-tagged summary is placed in the digest prompt.
C3_ModelErrorTagged ==
    /\ ListEndpoint =>
        /\ Len(modelLog) = Len(results)
        /\ \A i \in 1..Len(results) :
            modelLog[i].kind = "raise" => StartsWith(results[i].summary, TAG)
        /\ \A k \in 1..Len(digestPrompt) : ~StartsWith(digestPrompt[k], TAG)
        /\ \A i \in 1..Len(digestIn) :
            (digestIn[i] # <<>> /\ ~StartsWith(digestIn[i], TAG)) =>
                \E k \in 1..Len(digestPrompt) : digestPrompt[k] = Strip(digestIn[i])
    /\ (pc = "done" /\ \E i \in 1..Len(modelLog) : modelLog[i].kind = "raise") =>
        /\ endpoint = "summarize" => status = 200 /\ Len(results) = Len(articles)
        /\ (endpoint = "batch" /\ status # 500) =>
            status = 200 /\ Len(results) = Len(BatchSlice(request.items))
    /\ (endpoint = "article" /\ modelLog # <<>> /\ modelLog[1].kind = "raise") =>
        StartsWith(results[1].summary, TAG)

\* the first of two model calls raises, the second answers
C3_Witness ==
    /\ pc = "done" /\ endpoint = "summarize" /\ status = 200
    /\ Len(results) = 2
    /\ modelLog[1].kind = "raise" /\ modelLog[2] = Answered(<<"H", "i", ".">>)
    /\ StartsWith(results[1].summary, TAG)
    /\ digestPrompt = <<results[2].summary>>
    /\ calls.digest = 1

\* C4: /summarize answers 400, with an "error" key and without any outbound
\* call, exactly when feedUrls is missing, empty or not a list.
C4_FailFast ==
    (pc = "done" /\ endpoint = "summarize") =>
        /\ status = 400 <=> ~ValidFeeds
        /\ status = 400 =>
            /\ errorKey
            /\ calls = [parse |-> 0, fetch |-> 0, model |-> 0, digest |-> 0]

\* C5: every summary object returned has a non-empty summary; it is the
\* placeholder when the model gave no output, and in /summarize_article
\* when there was no content to summarize.
C5_SummaryNonEmpty ==
    /\ \A i \in 1..Len(results) : results[i].summary # <<>>
    /\ ListEndpoint =>
        \A i \in 1..Len(results) :
            (modelLog[i].kind = "text" /\ Strip(modelLog[i].text) = <<>>) =>
                results[i].summary = PLACEHOLDER
    /\ (endpoint = "article" /\ status = 200) =>
        /\ Len(results) = 1
        /\ modelLog = <<>> => results[1].summary = PLACEHOLDER
        /\ (modelLog # <<>> /\ modelLog[1].kind = "text"
                /\ Strip(modelLog[1].text) = <<>>) =>
            results[1].summary = PLACEHOLDER

\* an entry with no content and a failed page fetch, and an empty model output
C5_Witness ==
    /\ pc = "done" /\ endpoint = "summarize" /\ status = 200
    /\ Len(results) = 1
    /\ articles[1].content = <<>> /\ calls.fetch = 1
    /\ modelLog[1] = Answered(<<>>)
    /\ results[1].summary = PLACEHOLDER

\* C6: when every summary handed to ai_digest is the placeholder, the digest
\* is the no-signals sentinel and no model call is made for it.
C6_AllPlaceholders ==
    (pc = "done" /\ ListEndpoint /\ status = 200 /\ digestIn # <<>>
        /\ \A i \in 1..Len(digestIn) : digestIn[i] = PLACEHOLDER) =>
        digest = NO_SIGNALS /\ calls.digest = 0

\* C7: in /summarize the feeds parsed and the entries taken from one feed
\* are each within the configured cap (MAX_ARTICLES is the one the code has).
C7_FeedCaps ==
    endpoint = "summarize" =>
        /\ calls.parse <= MAX_ARTICLES
        /\ \A f \in 1..MaxFeeds :
            Cardinality({i \in 1..Len(origin) : origin[i][1] = f}) <= MAX_ARTICLES

\* C8: a request returns at most MAX_ARTICLES summaries, makes at most
\* MAX_ARTICLES article model calls and one digest call, and /summarize
\* fetches no page once MAX_ARTICLES articles are collected.
C8_GlobalCap ==
    /\ [](ListEndpoint =>
            /\ Len(results) <= MAX_ARTICLES
            /\ Len(articles) <= MAX_ARTICLES
            /\ calls.model <= MAX_ARTICLES
            /\ calls.digest <= 1)
    /\ [][(endpoint' = "summarize" /\ calls'.fetch > calls.fetch) =>
            Len(articles) < MAX_ARTICLES]_vars

\* one feed of three entries: two are collected, the third is never read
C8_Witness ==
    /\ pc = "done" /\ endpoint = "summarize" /\ status = 200
    /\ calls.parse = 1 /\ returned = 3 /\ entryIdx = 3
    /\ Len(results) = MAX_ARTICLES /\ calls.model = MAX_ARTICLES
    /\ calls.fetch = 1 /\ calls.digest = 1

\* C9: the summaries of /summarize are in input order, feed position then
\* entry position, each built from the article at its position, and the
\* list handed to the digest call is in that order.
C9_InputOrder ==
    endpoint = "summarize" =>
        /\ Len(origin) = Len(articles)
        /\ \A i, j \in 1..Len(origin) : i < j => Before(origin[i], origin[j])
        /\ Len(summaries) = Len(results)
        /\ \A i \in 1..Len(results) :
            /\ results[i].title = articles[i].title
            /\ results[i].url = articles[i].url
            /\ results[i].summary = summaries[i]
        /\ (pc = "done" /\ articles # <<>>) =>
            /\ Len(results) = Len(articles)
            /\ digestIn = [i \in 1..Len(results) |-> results[i].summary]

\* two summaries, from the first and from the second feed
C9_Witness ==
    /\ pc = "done" /\ endpoint = "summarize" /\ status = 200
    /\ Len(results) = 2
    /\ origin = << <<1, 1>>, <<2, 1>> >>
    /\ results[1].url = T("u") /\ results[2].url = T("x")
    /\ digestIn = <<results[1].summary, results[2].summary>>

\* C10: every non-empty model output is turned into one fragment closed by
\* a single period, with no other terminator before it.
C10_OneSentence ==
    \A i \in 1..Len(modelLog) :
        (modelLog[i].kind = "text" /\ modelLog[i].text # <<>>) =>
            OneSentence(results[i].summary)

====
